---- MODULE Spec2Model ----
(***************************************************************************)
(* Model of the compare-players edge function of sport-insights-ai        *)
(* (linearRegression, generateInsights and the serve handler), of the      *)
(* players table it reads and of the Index page that fills and browses     *)
(* that table.  Four specifications share the variables: Spec (the serve   *)
(* handler over the table), SpecInsights (generateInsights on its own),    *)
(* SpecRegression (linearRegression on its own) and SpecIndex (the page).  *)
(*                                                                         *)
(* JavaScript numbers are IEEE-754 binary64 values.  The thresholds of     *)
(* generateInsights (x 1.2, x 1.15, x 100, / matches) are computed in that *)
(* arithmetic, so the model carries a binary64 arithmetic (round to        *)
(* nearest, ties to even) built on multi-limb naturals: TLC integers are   *)
(* 32 bits wide and cannot hold a 53-bit significand.                      *)
(***************************************************************************)
EXTENDS Integers, Sequences, FiniteSets, TLC

(***************************************************************************)
(* Multi-limb naturals: little-endian sequences of limbs in 0..Base-1.     *)
(***************************************************************************)
LimbBits == 13
Base == 2^LimbBits
MantBits == 53
FracLimbs == 6

Limb(a, i) == IF i >= 1 /\ i <= Len(a) THEN a[i] ELSE 0

RECURSIVE Trim(_)
Trim(a) == IF Len(a) > 0 /\ a[Len(a)] = 0 THEN Trim(SubSeq(a, 1, Len(a) - 1)) ELSE a

RECURSIVE SmallBitLen(_)
SmallBitLen(n) == IF n = 0 THEN 0 ELSE 1 + SmallBitLen(n \div 2)

BitLen(a) ==
    LET t == Trim(a)
    IN  IF Len(t) = 0 THEN 0 ELSE (Len(t) - 1) * LimbBits + SmallBitLen(t[Len(t)])

RECURSIVE ToLimbs(_)
ToLimbs(n) == IF n = 0 THEN <<>> ELSE <<n % Base>> \o ToLimbs(n \div Base)

Pad(a, n) == [i \in 1..n |-> Limb(a, i)]

ShiftRight(a, s) ==
    LET q == s \div LimbBits
        r == s % LimbBits
        n == Len(a) - q
    IN  IF n <= 0 THEN <<>>
        ELSE [i \in 1..n |-> (Limb(a, i + q) \div 2^r)
                             + (Limb(a, i + q + 1) % 2^r) * 2^(LimbBits - r)]

ShiftLeft(a, s) ==
    LET q == s \div LimbBits
        r == s % LimbBits
        n == Len(a) + q + 1
    IN  [i \in 1..n |-> IF i <= q THEN 0
                        ELSE ((Limb(a, i - q) * 2^r) % Base)
                             + (Limb(a, i - q - 1) \div 2^(LimbBits - r))]

TestBit(a, b) == (Limb(a, (b \div LimbBits) + 1) \div 2^(b % LimbBits)) % 2 = 1

\* some bit among bits 0..s-1 of a is set
LowBitsSet(a, s) ==
    \E i \in 1..Len(a) :
        /\ (i - 1) * LimbBits < s
        /\ IF i * LimbBits <= s THEN a[i] # 0
           ELSE a[i] % 2^(s - (i - 1) * LimbBits) # 0

RECURSIVE AddCarry(_, _)
AddCarry(a, c) ==
    IF Len(a) = 0 THEN (IF c = 0 THEN <<>> ELSE <<c>>)
    ELSE <<(a[1] + c) % Base>> \o AddCarry(Tail(a), (a[1] + c) \div Base)

RECURSIVE Carry(_, _)
Carry(cols, c) ==
    IF Len(cols) = 0
    THEN (IF c = 0 THEN <<>> ELSE <<c % Base>> \o Carry(<<>>, c \div Base))
    ELSE LET v == cols[1] + c IN <<v % Base>> \o Carry(Tail(cols), v \div Base)

\* the product of two significands of MantLimbs limbs: the column sums of
\* the schoolbook product (each below 5 * 2^26), then the carries
MantMul(a, b) ==
    Carry(<<a[1] * b[1],
            a[1] * b[2] + a[2] * b[1],
            a[1] * b[3] + a[2] * b[2] + a[3] * b[1],
            a[1] * b[4] + a[2] * b[3] + a[3] * b[2] + a[4] * b[1],
            a[1] * b[5] + a[2] * b[4] + a[3] * b[3] + a[4] * b[2] + a[5] * b[1],
            a[2] * b[5] + a[3] * b[4] + a[4] * b[3] + a[5] * b[2],
            a[3] * b[5] + a[4] * b[4] + a[5] * b[3],
            a[4] * b[5] + a[5] * b[4],
            a[5] * b[5]>>, 0)

\* the product of a multi-limb natural and a small natural c < 2^17
MulSmall(a, c) == Carry([i \in 1..Len(a) |-> a[i] * c], 0)

RECURSIVE CmpFrom(_, _, _)
CmpFrom(a, b, i) ==
    IF i = 0 THEN 0
    ELSE IF Limb(a, i) > Limb(b, i) THEN 1
    ELSE IF Limb(a, i) < Limb(b, i) THEN -1
    ELSE CmpFrom(a, b, i - 1)

BigCmp(a, b) == CmpFrom(a, b, IF Len(a) > Len(b) THEN Len(a) ELSE Len(b))

(***************************************************************************)
(* binary64 values: kind "num" is sign * m * 2^e with m = 0 (and e = 0)    *)
(* or 2^52 <= m < 2^53; "nan" and "inf" are the non-finite values.  The    *)
(* values of this program stay far from the subnormal and overflow ranges. *)
(***************************************************************************)
MantLimbs == 5
FZero == [k |-> "num", s |-> 1, m |-> Pad(<<>>, MantLimbs), e |-> 0]
FNaN == [k |-> "nan", s |-> 1, m |-> Pad(<<>>, MantLimbs), e |-> 0]
FInf(sg) == [k |-> "inf", s |-> sg, m |-> Pad(<<>>, MantLimbs), e |-> 0]

IsZero(x) == x.k = "num" /\ x.m[MantLimbs] = 0

\* round the exact value sg * (q + sticky fraction) * 2^e to binary64
FRound(sg, q, e, sticky) ==
    LET L == BitLen(q)
    IN  IF L = 0 THEN FZero
        ELSE IF L <= MantBits
        THEN [k |-> "num", s |-> sg,
              m |-> Pad(ShiftLeft(q, MantBits - L), MantLimbs),
              e |-> e - (MantBits - L)]
        ELSE LET sh == L - MantBits
                 kept == ShiftRight(q, sh)
                 half == TestBit(q, sh - 1)
                 rest == sticky \/ LowBitsSet(q, sh - 1)
                 up == half /\ (rest \/ TestBit(kept, 0))
                 m1 == IF up THEN AddCarry(kept, 1) ELSE kept
             IN  IF BitLen(m1) > MantBits
                 THEN [k |-> "num", s |-> sg,
                       m |-> Pad(ShiftRight(m1, 1), MantLimbs), e |-> e + sh + 1]
                 ELSE [k |-> "num", s |-> sg, m |-> Pad(m1, MantLimbs), e |-> e + sh]

RECURSIVE DivDigits(_, _, _)
DivDigits(r, b, n) ==
    IF n = 0 THEN <<>>
    ELSE DivDigits((r * Base) % b, b, n - 1) \o <<(r * Base) \div b>>

RECURSIVE DivRem(_, _, _)
DivRem(r, b, n) == IF n = 0 THEN r ELSE DivRem((r * Base) % b, b, n - 1)

Abs(n) == IF n < 0 THEN -n ELSE n
Sgn(n) == IF n < 0 THEN -1 ELSE 1

\* the binary64 quotient a / b of two integer-valued numbers (|b| < 2^18)
FDivInt(a, b) ==
    IF b = 0 THEN (IF a = 0 THEN FNaN ELSE FInf(Sgn(a)))
    ELSE IF a = 0 THEN FZero
    ELSE LET aa == Abs(a)
             bb == Abs(b)
             q == DivDigits(aa % bb, bb, FracLimbs) \o ToLimbs(aa \div bb)
         IN  FRound(Sgn(a) * Sgn(b), q, -(FracLimbs * LimbBits),
                    DivRem(aa % bb, bb, FracLimbs) # 0)

\* an integer below 2^53 is a binary64 value
FromInt(n) == FRound(Sgn(n), ToLimbs(Abs(n)), 0, FALSE)

\* the binary64 product x * y
FMul(x, y) ==
    IF x.k = "nan" \/ y.k = "nan" THEN FNaN
    ELSE IF x.k = "inf" \/ y.k = "inf"
    THEN (IF IsZero(x) \/ IsZero(y) THEN FNaN ELSE FInf(x.s * y.s))
    ELSE IF IsZero(x) \/ IsZero(y) THEN FZero
    ELSE FRound(x.s * y.s, MantMul(x.m, y.m), x.e + y.e, FALSE)

\* -1, 0, 1 as x < y, x = y, x > y, for two values that are not NaN
FCmp(x, y) ==
    LET sx == IF IsZero(x) THEN 0 ELSE x.s
        sy == IF IsZero(y) THEN 0 ELSE y.s
        mag == IF x.k = "inf" /\ y.k = "inf" THEN 0
               ELSE IF x.k = "inf" THEN 1
               ELSE IF y.k = "inf" THEN -1
               ELSE IF x.e > y.e THEN 1
               ELSE IF x.e < y.e THEN -1
               ELSE BigCmp(x.m, y.m)
    IN  IF sx # sy THEN (IF sx > sy THEN 1 ELSE -1)
        ELSE IF sx = 0 THEN 0
        ELSE sx * mag

\* the JavaScript comparisons: every comparison with NaN is false
FGt(x, y) == x.k # "nan" /\ y.k # "nan" /\ FCmp(x, y) = 1
FLt(x, y) == FGt(y, x)

RECURSIVE BigAdd(_, _, _)
BigAdd(a, b, c) ==
    IF Len(a) = 0 /\ Len(b) = 0 THEN (IF c = 0 THEN <<>> ELSE <<c>>)
    ELSE LET v == Limb(a, 1) + Limb(b, 1) + c
         IN  <<v % Base>> \o BigAdd(IF Len(a) = 0 THEN a ELSE Tail(a),
                                    IF Len(b) = 0 THEN b ELSE Tail(b), v \div Base)

RECURSIVE FromLimbs(_)
FromLimbs(a) == IF Len(a) = 0 THEN 0 ELSE a[1] + Base * FromLimbs(Tail(a))

\* Number.prototype.toFixed(1) of a finite value, as a signed count of tenths:
\* the integer n with n / 10 closest to x, the larger one on a tie
ToFixed1(x) ==
    IF IsZero(x) THEN 0
    ELSE IF x.e >= 0 THEN x.s * 10 * FromLimbs(Trim(ShiftLeft(x.m, x.e)))
    ELSE x.s * FromLimbs(Trim(ShiftRight(
             BigAdd(MulSmall(x.m, 20), ShiftLeft(<<1>>, -x.e), 0), 1 - x.e)))

(***************************************************************************)
(* linearRegression (Index.tsx 432-444): least-squares slope of values     *)
(* against their 0-based positions.  The sums are integers far below 2^53, *)
(* so they are exact in binary64 and only the final division rounds.       *)
(***************************************************************************)
RECURSIVE SumSeq(_)
SumSeq(v) == IF Len(v) = 0 THEN 0 ELSE v[1] + SumSeq(Tail(v))

\* variant: sumXY not multiplied by n
linearRegressionNoN(values) ==
    LET n == Len(values)
        x == [i \in 1..n |-> i - 1]
        sumX == SumSeq(x)
        sumY == SumSeq(values)
        sumXY == SumSeq([i \in 1..n |-> x[i] * values[i]])
        sumX2 == SumSeq([i \in 1..n |-> x[i] * x[i]])
    IN  IF n = 0 THEN FZero
        ELSE FDivInt(sumXY - sumX * sumY, n * sumX2 - sumX * sumX)

linearRegression(values) ==
    LET n == Len(values)
        x == [i \in 1..n |-> i - 1]
        sumX == SumSeq(x)
        sumY == SumSeq(values)
        sumXY == SumSeq([i \in 1..n |-> x[i] * values[i]])
        sumX2 == SumSeq([i \in 1..n |-> x[i] * x[i]])
    IN  IF n = 0 THEN FZero
        ELSE FDivInt(n * sumXY - sumX * sumY, n * sumX2 - sumX * sumX)

(***************************************************************************)
(* generateInsights (Index.tsx 447-515).  A sentence is kept as its        *)
(* template (kind) and the values interpolated into it, in text order:     *)
(* name, then a and b.                                                     *)
(***************************************************************************)
Sentence(kind, name, a, b) == [kind |-> kind, name |-> name, a |-> a, b |-> b]

F1_2 == FDivInt(12, 10)
F1_15 == FDivInt(115, 100)
F100 == FromInt(100)
F0_5 == FDivInt(1, 2)
FMinus0_5 == FDivInt(-1, 2)

Total(p) == p.score + p.assists + p.rebounds

\* x >= y for two values that are not NaN
FGe(x, y) == x.k # "nan" /\ y.k # "nan" /\ FCmp(x, y) >= 0

\* variant: the thresholds compared with >= instead of >
OverallStepAtLeast(player1, player2) ==
    LET p1Total == Total(player1)
        p2Total == Total(player2)
    IN  IF FGe(FromInt(p1Total), FMul(FromInt(p2Total), F1_2))
        THEN <<Sentence("overall", player1.name, p1Total, p2Total)>>
        ELSE IF FGe(FromInt(p2Total), FMul(FromInt(p1Total), F1_2))
        THEN <<Sentence("overall", player2.name, p2Total, p1Total)>>
        ELSE <<Sentence("comparable", "", 0, 0)>>

\* variant: the second branch renders the totals in argument order
OverallStepArgOrder(player1, player2) ==
    LET p1Total == Total(player1)
        p2Total == Total(player2)
    IN  IF FGt(FromInt(p1Total), FMul(FromInt(p2Total), F1_2))
        THEN <<Sentence("overall", player1.name, p1Total, p2Total)>>
        ELSE IF FGt(FromInt(p2Total), FMul(FromInt(p1Total), F1_2))
        THEN <<Sentence("overall", player2.name, p1Total, p2Total)>>
        ELSE <<Sentence("comparable", "", 0, 0)>>

\* variant: the final else branch left out
OverallStepNoFallback(player1, player2) ==
    LET p1Total == Total(player1)
        p2Total == Total(player2)
    IN  IF FGt(FromInt(p1Total), FMul(FromInt(p2Total), F1_2))
        THEN <<Sentence("overall", player1.name, p1Total, p2Total)>>
        ELSE IF FGt(FromInt(p2Total), FMul(FromInt(p1Total), F1_2))
        THEN <<Sentence("overall", player2.name, p2Total, p1Total)>>
        ELSE <<>>

OverallStep(player1, player2) ==
    LET p1Total == Total(player1)
        p2Total == Total(player2)
    IN  IF FGt(FromInt(p1Total), FMul(FromInt(p2Total), F1_2))
        THEN <<Sentence("overall", player1.name, p1Total, p2Total)>>
        ELSE IF FGt(FromInt(p2Total), FMul(FromInt(p1Total), F1_2))
        THEN <<Sentence("overall", player2.name, p2Total, p1Total)>>
        ELSE <<Sentence("comparable", "", 0, 0)>>

Consistency(p) == IF p.matches > 0 THEN FDivInt(Total(p), p.matches) ELSE FZero

ConsistencyStep(player1, player2) ==
    LET p1Consistency == Consistency(player1)
        p2Consistency == Consistency(player2)
    IN  IF FGt(p1Consistency, FMul(p2Consistency, F1_15))
        THEN <<Sentence("consistency", player1.name,
                        ToFixed1(p1Consistency), ToFixed1(p2Consistency))>>
        ELSE IF FGt(p2Consistency, FMul(p1Consistency, F1_15))
        THEN <<Sentence("consistency", player2.name,
                        ToFixed1(p2Consistency), ToFixed1(p1Consistency))>>
        ELSE <<>>

\* variant: the division without the matches > 0 guard
WinRateUnguarded(p) == FMul(FDivInt(p.wins, p.matches), F100)

WinRate(p) == IF p.matches > 0 THEN FMul(FDivInt(p.wins, p.matches), F100) ELSE FZero

WinRateStep(player1, player2) ==
    LET p1WinRate == WinRate(player1)
        p2WinRate == WinRate(player2)
    IN  IF FGt(p1WinRate, p2WinRate)
        THEN <<Sentence("winrate", player1.name, ToFixed1(p1WinRate), ToFixed1(p2WinRate))>>
        ELSE IF FGt(p2WinRate, p1WinRate)
        THEN <<Sentence("winrate", player2.name, ToFixed1(p2WinRate), ToFixed1(p1WinRate))>>
        ELSE <<>>

Trend(p) == linearRegression(<<p.score, p.assists, p.rebounds>>)

\* variant: the strict-sign rule of the direction label used for the sentences
TrendStepSign(p) ==
    LET pTrend == Trend(p)
    IN  IF FGt(pTrend, FZero) THEN <<Sentence("improving", p.name, 0, 0)>>
        ELSE IF FLt(pTrend, FZero) THEN <<Sentence("declining", p.name, 0, 0)>>
        ELSE <<>>

TrendStep(p) ==
    LET pTrend == Trend(p)
    IN  IF FGt(pTrend, F0_5) THEN <<Sentence("improving", p.name, 0, 0)>>
        ELSE IF FLt(pTrend, FMinus0_5) THEN <<Sentence("declining", p.name, 0, 0)>>
        ELSE <<>>

\* variant: the maxima compared with >= instead of >
SpecializationStepAtLeast(p) ==
    IF p.score >= p.assists /\ p.score >= p.rebounds
    THEN <<Sentence("scorer", p.name, p.score, 0)>>
    ELSE IF p.assists >= p.score /\ p.assists >= p.rebounds
    THEN <<Sentence("playmaker", p.name, p.assists, 0)>>
    ELSE <<>>

SpecializationStep(p) ==
    IF p.score > p.assists /\ p.score > p.rebounds
    THEN <<Sentence("scorer", p.name, p.score, 0)>>
    ELSE IF p.assists > p.score /\ p.assists > p.rebounds
    THEN <<Sentence("playmaker", p.name, p.assists, 0)>>
    ELSE <<>>

\* variant: within the trend step and the specialization step the
\* sentence of player2 is pushed first
generateInsightsPlayer2First(player1, player2) ==
    OverallStep(player1, player2)
    \o ConsistencyStep(player1, player2)
    \o WinRateStep(player1, player2)
    \o TrendStep(player2) \o TrendStep(player1)
    \o SpecializationStep(player2) \o SpecializationStep(player1)

generateInsights(player1, player2) ==
    OverallStep(player1, player2)
    \o ConsistencyStep(player1, player2)
    \o WinRateStep(player1, player2)
    \o TrendStep(player1) \o TrendStep(player2)
    \o SpecializationStep(player1) \o SpecializationStep(player2)

(***************************************************************************)
(* The players table (migration 20251114142322) and the records the model  *)
(* draws from.  Counters are the non-negative integers of the data model.  *)
(***************************************************************************)
MaxMatches == 1
MaxScore == 1
MaxAssists == 1
MaxRebounds == 1
MaxWins == 1
MaxIds == 2
MaxReqs == 2
MaxLen == 3
MaxValue == 5
MaxSportChanges == 2

Stats(m, s, a, r, w) == [matches |-> m, score |-> s, assists |-> a, rebounds |-> r, wins |-> w]

SmallStats ==
    [matches : 0..MaxMatches, score : 0..MaxScore, assists : 0..MaxAssists,
     rebounds : 0..MaxRebounds, wins : 0..MaxWins]

\* the worked examples of the specification (section 8) and records on the
\* thresholds: totals 120/90 and 100/95, 8 and 4 wins of 10, equal stats,
\* wins above matches, totals 6/5 (x 1.2), ratios 23/3 and 20/3 (x 1.15),
\* equal win rates 1/2 and 2/4, slopes 1, 0.5 and -11.5
FixtureStats ==
    { Stats(10, 100, 10, 10, 8), Stats(10, 70, 10, 10, 4),
      Stats(10, 80, 10, 10, 5), Stats(10, 75, 10, 10, 5),
      Stats(2, 10, 10, 10, 3),
      Stats(3, 23, 0, 0, 1), Stats(3, 20, 0, 0, 2),
      Stats(1, 2, 2, 2, 2), Stats(2, 2, 1, 2, 1), Stats(4, 1, 4, 2, 2),
      Stats(1, 0, 1, 2, 0), Stats(0, 0, 3, 1, 1) }

StatsDomain == SmallStats \cup FixtureStats

PlayerStats(id, name, sport, st) ==
    [id |-> id, name |-> name, sport |-> sport, matches |-> st.matches,
     score |-> st.score, assists |-> st.assists, rebounds |-> st.rebounds,
     wins |-> st.wins]

Ids == 1..MaxIds
Reqs == 1..MaxReqs
NoRow == [id |-> 0]

\* the rows the Add Player form inserts in this model
NewPlayers ==
    { [name |-> "Ann", sport |-> "Basketball", st |-> Stats(3, 23, 0, 0, 1)],
      [name |-> "Cat", sport |-> "Soccer", st |-> Stats(0, 1, 1, 2, 0)],
      [name |-> "Dan", sport |-> "Soccer", st |-> Stats(2, 10, 10, 10, 3)] }

VARIABLES
    store,       \* players table: id -> row, or NoRow
    pc,          \* per request: "awaiting-input", "computing", "responded"
    request,     \* per request: the request the handler was invoked with
    reply,       \* per request: the answer of the store to the lookup
    lookups,     \* per request: number of lookup queries issued
    responses,   \* per request: the responses returned, in order
    trace,       \* per request: the states passed through, in order
    giPlayer1,   \* generateInsights called on its own: first argument
    giPlayer2,   \*   second argument
    giInsights,  \*   the list returned by the last call
    giPrevious,  \*   the list returned by the call before it
    giPc,        \*   "args", "done", "swapped"
    lrValues,    \* linearRegression called on its own: the argument
    lrSlope,     \*   the value returned
    lrPc,        \*   "args", "done"
    selectedSport,    \* Index page: the sport chosen, "" when none
    players,          \*   the players state: rows of the last fetch applied
    selectedPlayer1,  \*   id chosen as first player, 0 for ""
    selectedPlayer2,  \*   id chosen as second player, 0 for ""
    loading,          \*   the loading flag
    fetches,          \*   the fetchPlayers calls, in order of start
    route,            \*   the route shown: "/" or the compare route
    toast             \*   the last toast shown, "" when none

hvars == <<store, pc, request, reply, lookups, responses, trace>>
givars == <<giPlayer1, giPlayer2, giInsights, giPrevious, giPc>>
lrvars == <<lrValues, lrSlope, lrPc>>
vars == <<store, pc, request, reply, lookups, responses, trace,
          giPlayer1, giPlayer2, giInsights, giPrevious, giPc,
          lrValues, lrSlope, lrPc,
          selectedSport, players, selectedPlayer1, selectedPlayer2,
          loading, fetches, route, toast>>
pvars == <<selectedSport, players, selectedPlayer1, selectedPlayer2,
           loading, fetches, route, toast>>

NoRequest == [method |-> "none", json |-> FALSE, player1Id |-> 0, player2Id |-> 0]
NoReply == [kind |-> "none", rows |-> <<>>]

\* the requests a client can send: an OPTIONS probe, a body that is not a
\* JSON object, and a JSON object whose identifiers are present (an id) or
\* missing or empty (0, falsy as undefined and "" are)
Requests ==
    { [method |-> "OPTIONS", json |-> FALSE, player1Id |-> 0, player2Id |-> 0],
      [method |-> "POST", json |-> FALSE, player1Id |-> 0, player2Id |-> 0] }
    \cup [method : {"POST"}, json : {TRUE}, player1Id : 0..MaxIds, player2Id : 0..MaxIds]

NoRequests ==
    /\ pc = [r \in Reqs |-> "awaiting-input"]
    /\ request = [r \in Reqs |-> NoRequest]
    /\ reply = [r \in Reqs |-> NoReply]
    /\ lookups = [r \in Reqs |-> 0]
    /\ responses = [r \in Reqs |-> <<>>]
    /\ trace = [r \in Reqs |-> <<"awaiting-input">>]

HandlerInit ==
    /\ store = [i \in Ids |-> NoRow]
    /\ NoRequests

GiIdle ==
    /\ giPlayer1 = PlayerStats(1, "P1", "Basketball", Stats(0, 0, 0, 0, 0))
    /\ giPlayer2 = PlayerStats(2, "P2", "Basketball", Stats(0, 0, 0, 0, 0))
    /\ giInsights = <<>>
    /\ giPrevious = <<>>
    /\ giPc = "args"

(***************************************************************************)
(* fetchPlayers (Index.tsx 49-68) up to its await: the loading flag is set *)
(* and the query is sent.  A call is kept as the sport it filters on ("",  *)
(* falsy, for no filter), who started it, how far it got ("sent",          *)
(* "answered", "done") and the answer of the store.                        *)
(***************************************************************************)
Home == [path |-> "/", player1 |-> 0, player2 |-> 0]

fetchPlayers(sport, by) ==
    /\ loading' = TRUE
    /\ fetches' = Append(fetches, [sport |-> sport, by |-> by, status |-> "sent",
                                   ok |-> TRUE, data |-> <<>>])

\* the page after its first render and the mount effect (45-47)
PageInit ==
    /\ selectedSport = ""
    /\ players = <<>>
    /\ selectedPlayer1 = 0
    /\ selectedPlayer2 = 0
    /\ loading = TRUE
    /\ fetches = <<[sport |-> "", by |-> "mount", status |-> "sent",
                    ok |-> TRUE, data |-> <<>>]>>
    /\ route = Home
    /\ toast = ""

LrIdle ==
    /\ lrValues = <<>>
    /\ lrSlope = FZero
    /\ lrPc = "args"

Init == HandlerInit /\ GiIdle /\ LrIdle /\ PageInit

(***************************************************************************)
(* handleAddPlayer (Index.tsx 77-104): insert of one row; the table gives  *)
(* it a fresh id (gen_random_uuid).  Ids are opaque, so the model numbers  *)
(* the rows in order of insertion.  No code of the repository updates or   *)
(* deletes a row.  After the insert the handler shows its toast and calls  *)
(* fetchPlayers(selectedSport); the insert and this continuation are one   *)
(* step here.                                                              *)
(***************************************************************************)
handleAddPlayer(id, newPlayer) ==
    /\ route = Home
    /\ newPlayer.name # "" /\ newPlayer.sport # ""
    /\ store[id] = NoRow
    /\ \A i \in 1..(id - 1) : store[i] # NoRow
    /\ store' = [store EXCEPT ![id] = PlayerStats(id, newPlayer.name, newPlayer.sport, newPlayer.st)]
    /\ toast' = "Player added successfully!"
    /\ fetchPlayers(selectedSport, "add")
    /\ UNCHANGED <<selectedSport, players, selectedPlayer1, selectedPlayer2, route>>
    /\ UNCHANGED <<pc, request, reply, lookups, responses, trace>>
    /\ UNCHANGED <<givars, lrvars>>

(***************************************************************************)
(* serve handler (Index.tsx 517-603)                                       *)
(***************************************************************************)
\* variant: the catch block without status 500
ErrorResponseOk(msg) == [status |-> 200, body |-> [error |-> msg]]

ErrorResponse(msg) == [status |-> 500, body |-> [error |-> msg]]
OptionsResponse == [status |-> 200, body |-> <<>>]

\* variant: only the first identifier is validated
IdsPresentFirstOnly(req) == req.player1Id # 0

\* Index.tsx 529: if (!player1Id || !player2Id) throw
IdsPresent(req) == req.player1Id # 0 /\ req.player2Id # 0

Respond(r, resp) ==
    /\ pc' = [pc EXCEPT ![r] = "responded"]
    /\ responses' = [responses EXCEPT ![r] = Append(@, resp)]
    /\ trace' = [trace EXCEPT ![r] = Append(@, "responded")]

\* invocation up to the first suspension: the OPTIONS probe, the body and
\* its validation, and the lookup query sent to the store (517-537).
\* Requests are numbered in order of invocation.
Serve(r, req) ==
    /\ pc[r] = "awaiting-input"
    /\ request[r] = NoRequest
    /\ \A q \in 1..(r - 1) : request[q] # NoRequest
    /\ request' = [request EXCEPT ![r] = req]
    /\ IF req.method = "OPTIONS"
       THEN Respond(r, OptionsResponse) /\ UNCHANGED <<lookups, reply>>
       ELSE IF ~req.json
       THEN Respond(r, ErrorResponse("Unexpected token")) /\ UNCHANGED <<lookups, reply>>
       ELSE IF ~IdsPresent(req)
       THEN Respond(r, ErrorResponse("Both player IDs are required"))
            /\ UNCHANGED <<lookups, reply>>
       ELSE /\ pc' = [pc EXCEPT ![r] = "computing"]
            /\ trace' = [trace EXCEPT ![r] = Append(@, "computing")]
            /\ lookups' = [lookups EXCEPT ![r] = @ + 1]
            /\ UNCHANGED <<responses, reply>>
    /\ UNCHANGED store
    /\ UNCHANGED <<givars, lrvars, pvars>>

\* the rows select('*').in('id', [player1Id, player2Id]) can return: the
\* stored rows with one of the two ids, in any order
RowLists(req) ==
    LET hit == {i \in Ids : store[i] # NoRow /\ i \in {req.player1Id, req.player2Id}}
    IN  IF hit = {} THEN {<<>>}
        ELSE IF Cardinality(hit) = 1 THEN {<<store[i]>> : i \in hit}
        ELSE UNION {{<<store[i], store[j]>> : j \in hit \ {i}} : i \in hit}

\* the store answers the lookup: the rows, or an error
StoreAnswer(r) ==
    /\ pc[r] = "computing"
    /\ reply[r] = NoReply
    /\ \/ \E rows \in RowLists(request[r]) :
              reply' = [reply EXCEPT ![r] = [kind |-> "data", rows |-> rows]]
       \/ reply' = [reply EXCEPT ![r] = [kind |-> "error", rows |-> <<>>]]
    /\ UNCHANGED <<store, pc, request, lookups, responses, trace>>
    /\ UNCHANGED <<givars, lrvars, pvars>>

\* Array.prototype.find: the first element with the id, else undefined
Found(rows, id) == \E i \in 1..Len(rows) : rows[i].id = id
Find(rows, id) ==
    rows[CHOOSE i \in 1..Len(rows) :
            rows[i].id = id /\ \A j \in 1..(i - 1) : rows[j].id # id]

\* variant: any non-empty result is accepted
RowCountAtLeastOne(rows) == Len(rows) >= 1

\* Index.tsx 540: players.length !== 2 throws
RowCountOk(rows) == Len(rows) = 2

Public(p) ==
    [name |-> p.name, matches |-> p.matches, score |-> p.score,
     assists |-> p.assists, rebounds |-> p.rebounds, wins |-> p.wins]

\* variant: the direction label with the 0.5 band of the trend sentences
DirectionBanded(slope) ==
    IF FGt(slope, F0_5) THEN "Improving performance"
    ELSE IF FLt(slope, FMinus0_5) THEN "Declining performance"
    ELSE "Stable performance"

Direction(slope) ==
    IF FGt(slope, FZero) THEN "Improving performance"
    ELSE IF FLt(slope, FZero) THEN "Declining performance"
    ELSE "Stable performance"

\* variant: the direction of player1 taken from the slope of player2
SuccessResponseCrossedTrends(player1, player2) ==
    LET p1Trend == Trend(player1)
        p2Trend == Trend(player2)
    IN  [status |-> 200,
         body |-> [comparison |-> [player1 |-> Public(player1), player2 |-> Public(player2)],
                   trends |-> [player1 |-> [slope |-> p1Trend, direction |-> Direction(p2Trend)],
                               player2 |-> [slope |-> p2Trend, direction |-> Direction(p2Trend)]],
                   insights |-> generateInsights(player1, player2)]]

SuccessResponse(player1, player2) ==
    LET p1Trend == Trend(player1)
        p2Trend == Trend(player2)
    IN  [status |-> 200,
         body |-> [comparison |-> [player1 |-> Public(player1), player2 |-> Public(player2)],
                   trends |-> [player1 |-> [slope |-> p1Trend, direction |-> Direction(p1Trend)],
                               player2 |-> [slope |-> p2Trend, direction |-> Direction(p2Trend)]],
                   insights |-> generateInsights(player1, player2)]]

\* variant: the two rows taken by position in the result
ResponseForPositional(req, rep) ==
    IF rep.kind = "error" THEN ErrorResponse("store error")
    ELSE IF ~RowCountOk(rep.rows) THEN ErrorResponse("Could not find both players")
    ELSE SuccessResponse(rep.rows[1], rep.rows[2])

\* the response built from the answer of the store (539-602)
ResponseFor(req, rep) ==
    IF rep.kind = "error" THEN ErrorResponse("store error")
    ELSE IF ~RowCountOk(rep.rows) THEN ErrorResponse("Could not find both players")
    ELSE IF ~Found(rep.rows, req.player1Id) \/ ~Found(rep.rows, req.player2Id)
    THEN ErrorResponse("Cannot read properties of undefined")
    ELSE SuccessResponse(Find(rep.rows, req.player1Id), Find(rep.rows, req.player2Id))

\* variant: a failed lookup is sent again once
ResumeWithRetry(r) ==
    /\ pc[r] = "computing"
    /\ reply[r] # NoReply
    /\ IF reply[r].kind = "error" /\ lookups[r] < 2
       THEN /\ reply' = [reply EXCEPT ![r] = NoReply]
            /\ lookups' = [lookups EXCEPT ![r] = @ + 1]
            /\ UNCHANGED <<pc, responses, trace>>
       ELSE /\ Respond(r, ResponseFor(request[r], reply[r]))
            /\ UNCHANGED <<reply, lookups>>
    /\ UNCHANGED <<store, request>>
    /\ UNCHANGED <<givars, lrvars, pvars>>

\* variant: the answer of the store kept in one slot shared by all requests
ResumeSharedReply(r) ==
    /\ pc[r] = "computing"
    /\ reply[r] # NoReply
    /\ Respond(r, ResponseFor(request[r], reply[1]))
    /\ UNCHANGED <<store, request, reply, lookups>>
    /\ UNCHANGED <<givars, lrvars, pvars>>

\* the handler resumes with the answer and returns its response
Resume(r) ==
    /\ pc[r] = "computing"
    /\ reply[r] # NoReply
    /\ Respond(r, ResponseFor(request[r], reply[r]))
    /\ UNCHANGED <<store, request, reply, lookups>>
    /\ UNCHANGED <<givars, lrvars, pvars>>

Next ==
    \/ \E id \in Ids, np \in NewPlayers : handleAddPlayer(id, np)
    \/ \E r \in Reqs, req \in Requests : Serve(r, req)
    \/ \E r \in Reqs : StoreAnswer(r)
    \/ \E r \in Reqs : Resume(r)

Spec == Init /\ [][Next]_vars

(***************************************************************************)
(* generateInsights on its own: every pair of records of StatsDomain, the  *)
(* call, and the call with the two arguments exchanged.                    *)
(***************************************************************************)
InitInsights ==
    /\ HandlerInit
    /\ \E st \in StatsDomain : giPlayer1 = PlayerStats(1, "P1", "Basketball", st)
    /\ \E st \in StatsDomain : giPlayer2 = PlayerStats(2, "P2", "Basketball", st)
    /\ giInsights = <<>>
    /\ giPrevious = <<>>
    /\ giPc = "args"
    /\ LrIdle
    /\ PageInit

Generate ==
    /\ giPc = "args"
    /\ giInsights' = generateInsights(giPlayer1, giPlayer2)
    /\ giPc' = "done"
    /\ UNCHANGED <<giPlayer1, giPlayer2, giPrevious>>
    /\ UNCHANGED <<hvars, lrvars, pvars>>

GenerateSwapped ==
    /\ giPc = "done"
    /\ giPrevious' = giInsights
    /\ giInsights' = generateInsights(giPlayer2, giPlayer1)
    /\ giPc' = "swapped"
    /\ UNCHANGED <<giPlayer1, giPlayer2>>
    /\ UNCHANGED <<hvars, lrvars, pvars>>

NextInsights == Generate \/ GenerateSwapped

SpecInsights == InitInsights /\ [][NextInsights]_vars

(***************************************************************************)
(* linearRegression on its own: every sequence of at most MaxLen values of *)
(* 0..MaxValue, and the call.                                              *)
(***************************************************************************)
ValueSeqs == UNION {[1..n -> 0..MaxValue] : n \in 0..MaxLen}

InitRegression ==
    /\ HandlerInit
    /\ GiIdle
    /\ lrValues \in ValueSeqs
    /\ lrSlope = FZero
    /\ lrPc = "args"
    /\ PageInit

Regress ==
    /\ lrPc = "args"
    /\ lrSlope' = linearRegression(lrValues)
    /\ lrPc' = "done"
    /\ UNCHANGED lrValues
    /\ UNCHANGED <<hvars, givars, pvars>>

NextRegression == Regress

SpecRegression == InitRegression /\ [][NextRegression]_vars

(***************************************************************************)
(* The Index page (Index.tsx 26-122) browsing a table that holds the rows  *)
(* inserted so far (any number up to MaxIds, by handleAddPlayer above):    *)
(* sport and player selection, handleCompare, and the fetchPlayers calls   *)
(* of the mount effect and of handleSportChange with their answers         *)
(* arriving in any order.                                                  *)
(***************************************************************************)
Sports == {np.sport : np \in NewPlayers}

\* the rows of the table in the order of order("created_at", descending)
Newest == [i \in 1..MaxIds |-> store[MaxIds + 1 - i]]
IsRow(p) == p # NoRow
RowsOf(sport) ==
    LET Wanted(p) == IsRow(p) /\ (sport = "" \/ p.sport = sport)
    IN  SelectSeq(Newest, Wanted)

\* Index.tsx 120-122
filteredPlayers ==
    LET SameSport(p) == p.sport = selectedSport
    IN  IF selectedSport # "" THEN SelectSeq(players, SameSport) ELSE players

InitIndex ==
    /\ \E k \in 0..MaxIds : \E f \in [1..k -> NewPlayers] :
           store = [i \in Ids |-> IF i <= k
                                  THEN PlayerStats(i, f[i].name, f[i].sport, f[i].st)
                                  ELSE NoRow]
    /\ NoRequests
    /\ GiIdle
    /\ LrIdle
    /\ PageInit

SportChanges == Cardinality({f \in 1..Len(fetches) : fetches[f].by = "sport"})

\* Index.tsx 70-75; the Select reports a change of value only
handleSportChange(sport) ==
    /\ route = Home
    /\ sport # selectedSport
    /\ SportChanges < MaxSportChanges
    /\ selectedSport' = sport
    /\ selectedPlayer1' = 0
    /\ selectedPlayer2' = 0
    /\ fetchPlayers(sport, "sport")
    /\ UNCHANGED <<players, route, toast>>
    /\ UNCHANGED <<hvars, givars, lrvars>>

\* the two player Selects (202-234): rendered once a sport is chosen, their
\* items are the filteredPlayers
Listed == {filteredPlayers[i].id : i \in 1..Len(filteredPlayers)}

setSelectedPlayer1(id) ==
    /\ route = Home
    /\ selectedSport # ""
    /\ id \in Listed
    /\ id # selectedPlayer1
    /\ selectedPlayer1' = id
    /\ UNCHANGED <<selectedSport, players, selectedPlayer2, loading, fetches, route, toast>>
    /\ UNCHANGED <<hvars, givars, lrvars>>

setSelectedPlayer2(id) ==
    /\ route = Home
    /\ selectedSport # ""
    /\ id \in Listed
    /\ id # selectedPlayer2
    /\ selectedPlayer2' = id
    /\ UNCHANGED <<selectedSport, players, selectedPlayer1, loading, fetches, route, toast>>
    /\ UNCHANGED <<hvars, givars, lrvars>>

CompareRoute(id1, id2) == [path |-> "/compare", player1 |-> id1, player2 |-> id2]

\* variant: without the check that the two selections differ
handleCompareNoDistinct ==
    /\ route = Home
    /\ selectedSport # ""
    /\ IF selectedPlayer1 = 0 \/ selectedPlayer2 = 0
       THEN toast' = "Please select two players to compare" /\ UNCHANGED route
       ELSE route' = CompareRoute(selectedPlayer1, selectedPlayer2) /\ UNCHANGED toast
    /\ UNCHANGED <<selectedSport, players, selectedPlayer1, selectedPlayer2, loading, fetches>>
    /\ UNCHANGED <<hvars, givars, lrvars>>

\* Index.tsx 106-118, the handler of the Compare button, which is rendered
\* once a sport is chosen.  The button is also disabled while a selection
\* is empty (240); the handler is taken here as callable in every state in
\* which it is rendered, which admits more calls than the button does.
handleCompare ==
    /\ route = Home
    /\ selectedSport # ""
    /\ IF selectedPlayer1 = 0 \/ selectedPlayer2 = 0
       THEN toast' = "Please select two players to compare" /\ UNCHANGED route
       ELSE IF selectedPlayer1 = selectedPlayer2
       THEN toast' = "Please select different players" /\ UNCHANGED route
       ELSE route' = CompareRoute(selectedPlayer1, selectedPlayer2) /\ UNCHANGED toast
    /\ UNCHANGED <<selectedSport, players, selectedPlayer1, selectedPlayer2, loading, fetches>>
    /\ UNCHANGED <<hvars, givars, lrvars>>

\* the store answers the query of one fetchPlayers call (52-58): the rows,
\* or an error
StoreAnswersFetch(f) ==
    /\ route = Home
    /\ fetches[f].status = "sent"
    /\ \/ fetches' = [fetches EXCEPT ![f].status = "answered",
                                      ![f].data = RowsOf(fetches[f].sport)]
       \/ fetches' = [fetches EXCEPT ![f].status = "answered", ![f].ok = FALSE]
    /\ UNCHANGED <<selectedSport, players, selectedPlayer1, selectedPlayer2,
                   loading, route, toast>>
    /\ UNCHANGED <<hvars, givars, lrvars>>

\* one fetchPlayers call resumes with its answer (60-67); the answers reach
\* the page in any order
FetchResume(f) ==
    /\ route = Home
    /\ fetches[f].status = "answered"
    /\ fetches' = [fetches EXCEPT ![f].status = "done"]
    /\ IF fetches[f].ok
       THEN players' = fetches[f].data /\ UNCHANGED toast
       ELSE toast' = "Failed to load players" /\ UNCHANGED players
    /\ loading' = FALSE
    /\ UNCHANGED <<selectedSport, selectedPlayer1, selectedPlayer2, route>>
    /\ UNCHANGED <<hvars, givars, lrvars>>

NextIndex ==
    \/ \E sport \in Sports : handleSportChange(sport)
    \/ \E id \in Ids : setSelectedPlayer1(id)
    \/ \E id \in Ids : setSelectedPlayer2(id)
    \/ handleCompare
    \/ \E f \in 1..Len(fetches) : StoreAnswersFetch(f)
    \/ \E f \in 1..Len(fetches) : FetchResume(f)

SpecIndex == InitIndex /\ [][NextIndex]_vars

(***************************************************************************)
(* Properties of the serve handler, checked under Spec.                    *)
(***************************************************************************)
Responded(r) == pc[r] = "responded"
Response(r) == responses[r][1]
IsErrorEnvelope(resp) == resp.status = 500 /\ DOMAIN resp.body = {"error"}
IsSuccessBody(resp) ==
    resp.status = 200 /\ DOMAIN resp.body = {"comparison", "trends", "insights"}
ValidPost(req) == req.method = "POST" /\ req.json /\ IdsPresent(req)
ReturnedIds(r) == {reply[r].rows[i].id : i \in 1..Len(reply[r].rows)}

\* C1: when the two identifiers of a request are distinct and the store
\* returned the rows of both, the response is a success whose
\* comparison.player1 carries exactly the name, matches, score, assists,
\* rebounds and wins of the stored record with id = player1Id and whose
\* comparison.player2 carries those of the record with id = player2Id,
\* whatever the order of the two rows in the answer.
C1_ComparisonCarriesStoredRecords ==
    \A r \in Reqs :
        ( /\ Responded(r)
          /\ ValidPost(request[r])
          /\ request[r].player1Id # request[r].player2Id
          /\ reply[r].kind = "data"
          /\ ReturnedIds(r) = {request[r].player1Id, request[r].player2Id} )
        => /\ IsSuccessBody(Response(r))
           /\ Response(r).body.comparison.player1 = Public(store[request[r].player1Id])
           /\ Response(r).body.comparison.player2 = Public(store[request[r].player2Id])

\* a success whose lookup returned the row of player2Id first, the two rows
\* differing in every field
C1_Witness ==
    \E r \in Reqs :
        /\ Responded(r)
        /\ reply[r].kind = "data" /\ Len(reply[r].rows) = 2
        /\ reply[r].rows[1].id = request[r].player2Id
        /\ reply[r].rows[2].id = request[r].player1Id
        /\ \A f \in {"name", "matches", "score", "assists", "rebounds", "wins"} :
               reply[r].rows[1][f] # reply[r].rows[2][f]
        /\ IsSuccessBody(Response(r))

\* C2: every response to a request other than OPTIONS is all-or-nothing:
\* a success body holding comparison, trends and insights together and no
\* error field, or a status-500 body holding an error string and nothing else.
C2_AllOrNothing ==
    \A r \in Reqs :
        \A i \in 1..Len(responses[r]) :
            request[r].method # "OPTIONS"
            => \/ IsSuccessBody(responses[r][i])
               \/ IsErrorEnvelope(responses[r][i])

\* the store failed the lookup of a valid request and the error envelope
\* was returned
C2_Witness ==
    \E r \in Reqs :
        /\ Responded(r)
        /\ ValidPost(request[r])
        /\ reply[r].kind = "error"
        /\ IsErrorEnvelope(Response(r))

\* C3: when the lookup returns a number of rows other than 2 (neither id
\* stored, one id stored, or player1Id = player2Id), the handler answers
\* with the status-500 error envelope and no comparison data.
C3_WrongRowCountFails ==
    \A r \in Reqs :
        (Responded(r) /\ reply[r].kind = "data" /\ Len(reply[r].rows) # 2)
        => IsErrorEnvelope(Response(r))

\* a request naming the same stored id twice: the store returned its one row
C3_Witness ==
    \E r \in Reqs :
        /\ Responded(r)
        /\ request[r].player1Id = request[r].player2Id
        /\ reply[r].kind = "data" /\ Len(reply[r].rows) = 1
        /\ reply[r].rows[1].id = request[r].player1Id
        /\ IsErrorEnvelope(Response(r))

\* C4: a JSON body whose player1Id or player2Id is missing or empty is
\* answered with the status-500 error envelope at once: no lookup query is
\* sent to the store and neither trends nor insights are computed.
C4_MissingIdNoLookup ==
    \A r \in Reqs :
        ( /\ request[r].method = "POST" /\ request[r].json
          /\ (request[r].player1Id = 0 \/ request[r].player2Id = 0) )
        => /\ Responded(r)
           /\ lookups[r] = 0
           /\ reply[r] = NoReply
           /\ trace[r] = <<"awaiting-input", "responded">>
           /\ Len(responses[r]) = 1
           /\ IsErrorEnvelope(Response(r))

\* only player2Id is missing, and the id given as player1Id is stored
C4_Witness ==
    \E r \in Reqs :
        /\ request[r].method = "POST" /\ request[r].json
        /\ request[r].player1Id # 0 /\ request[r].player2Id = 0
        /\ store[request[r].player1Id] # NoRow
        /\ Responded(r) /\ lookups[r] = 0

\* C5 as stated, read for the POST requests with a JSON body only: every
\* request passes through awaiting-input, computing and responded in that
\* order, produces exactly one response and issues at most one store lookup.
C5_EveryRequestPassesThroughComputing ==
    \A r \in Reqs :
        (Responded(r) /\ request[r].method = "POST" /\ request[r].json)
        => /\ trace[r] = <<"awaiting-input", "computing", "responded">>
           /\ Len(responses[r]) = 1
           /\ lookups[r] <= 1

\* C5 amended: a request only moves forward through awaiting-input,
\* computing, responded and never revisits a state; a POST with both
\* identifiers passes through all three and issues exactly one lookup, while
\* an OPTIONS probe, an unreadable body or a missing identifier is answered
\* from awaiting-input directly, with no lookup; every request produces
\* exactly one response, and a store error or a wrong row count leads to the
\* failure response without a second lookup.
C5_ForwardOnlyOneResponseNoRetry ==
    \A r \in Reqs :
        /\ lookups[r] <= 1
        /\ trace[r] \in { <<"awaiting-input">>,
                          <<"awaiting-input", "computing">>,
                          <<"awaiting-input", "computing", "responded">>,
                          <<"awaiting-input", "responded">> }
        /\ pc[r] = trace[r][Len(trace[r])]
        /\ Len(responses[r]) = (IF Responded(r) THEN 1 ELSE 0)
        /\ Responded(r)
           => IF ValidPost(request[r])
              THEN /\ trace[r] = <<"awaiting-input", "computing", "responded">>
                   /\ lookups[r] = 1
              ELSE /\ trace[r] = <<"awaiting-input", "responded">>
                   /\ lookups[r] = 0
        /\ ( /\ Responded(r)
             /\ \/ reply[r].kind = "error"
                \/ (reply[r].kind = "data" /\ Len(reply[r].rows) # 2) )
           => IsErrorEnvelope(Response(r)) /\ lookups[r] = 1

\* the store failed the one lookup of a request and the failure was returned
C5_Witness ==
    \E r \in Reqs :
        /\ Responded(r)
        /\ reply[r].kind = "error"
        /\ lookups[r] = 1
        /\ trace[r] = <<"awaiting-input", "computing", "responded">>
        /\ Response(r).status = 500

\* the stored record a success response reports under "player1" / "player2"
Sides == {"player1", "player2"}
Stored(r, side) ==
    store[IF side = "player1" THEN request[r].player1Id ELSE request[r].player2Id]
Succeeded(r) == Responded(r) /\ IsSuccessBody(Response(r))

\* C13: in every success response the direction of each player follows the
\* strict sign of the slope of that player: "Improving performance" iff
\* slope > 0, "Declining performance" iff slope < 0, "Stable performance"
\* iff slope = 0, the slope being that of the stored score, assists,
\* rebounds (positive iff rebounds > score); a player with
\* score = assists = rebounds has slope 0 and is "Stable performance".
C13_DirectionBySign ==
    \A r \in Reqs :
        Succeeded(r) =>
            \A side \in Sides :
                LET t == Response(r).body.trends[side]
                    p == Stored(r, side)
                IN  /\ t.slope.k = "num"
                    /\ FGt(t.slope, FZero) <=> p.rebounds > p.score
                    /\ FLt(t.slope, FZero) <=> p.rebounds < p.score
                    /\ IsZero(t.slope) <=> p.rebounds = p.score
                    /\ (t.direction = "Improving performance") <=> FGt(t.slope, FZero)
                    /\ (t.direction = "Declining performance") <=> FLt(t.slope, FZero)
                    /\ (t.direction = "Stable performance") <=> IsZero(t.slope)
                    /\ (p.score = p.assists /\ p.assists = p.rebounds)
                       => (IsZero(t.slope) /\ t.direction = "Stable performance")

\* a success whose player1 has score = assists = rebounds = 10 (stable) and
\* whose player2 has slope 0.5 (improving)
C13_Witness ==
    \E r \in Reqs :
        /\ Succeeded(r)
        /\ Stored(r, "player1").score = 10
        /\ Stored(r, "player1").assists = 10 /\ Stored(r, "player1").rebounds = 10
        /\ Response(r).body.trends.player1.direction = "Stable performance"
        /\ Response(r).body.trends.player2.slope = F0_5
        /\ Response(r).body.trends.player2.direction = "Improving performance"

\* the response has a trend sentence of this kind for the player of a side
TrendSentence(r, kind, side) ==
    \E i \in 1..Len(Response(r).body.insights) :
        /\ Response(r).body.insights[i].kind = kind
        /\ Response(r).body.insights[i].name = Response(r).body.comparison[side].name

ReturnedRows(r) == {reply[r].rows[i] : i \in 1..Len(reply[r].rows)}

\* C16: the response is a function of (player1Id, player2Id) and the stored
\* records at lookup time only: two requests with the same identifiers
\* whose lookups were answered from the same stored records have identical
\* responses, whether the two ran one after the other or suspended at the
\* lookup together, and in whatever order the store listed the rows.
C16_SameRequestSameResponse ==
    \A r1, r2 \in Reqs :
        ( /\ Responded(r1) /\ Responded(r2)
          /\ ValidPost(request[r1]) /\ ValidPost(request[r2])
          /\ request[r1].player1Id = request[r2].player1Id
          /\ request[r1].player2Id = request[r2].player2Id
          /\ reply[r1].kind = "data" /\ reply[r2].kind = "data"
          /\ ReturnedRows(r1) = ReturnedRows(r2) )
        => Response(r1) = Response(r2)

\* two requests for the same two players, the store listing the rows in
\* opposite orders for them: the same success response twice
C16_Witness ==
    \E r1, r2 \in Reqs :
        /\ r1 # r2
        /\ Succeeded(r1) /\ Succeeded(r2)
        /\ request[r1] = request[r2]
        /\ request[r1].player1Id # request[r1].player2Id
        /\ reply[r1].rows = <<reply[r2].rows[2], reply[r2].rows[1]>>
        /\ Response(r1) = Response(r2)

(***************************************************************************)
(* Properties of generateInsights, checked under SpecInsights.  The        *)
(* thresholds are stated in exact integer arithmetic (cross-multiplied),   *)
(* the code computes them in binary64.                                     *)
(***************************************************************************)
\* the arguments of the last call, in call order
CallPlayer1 == IF giPc = "swapped" THEN giPlayer2 ELSE giPlayer1
CallPlayer2 == IF giPc = "swapped" THEN giPlayer1 ELSE giPlayer2
Called == giPc # "args"

Positions(kinds) == {i \in 1..Len(giInsights) : giInsights[i].kind \in kinds}
Names(kind, p) == \E i \in Positions({kind}) : giInsights[i].name = p.name

\* total1 > 1.2 x total2
Leads(p, q) == 5 * Total(p) > 6 * Total(q)

\* C6: for records with non-negative stats the first insight is the one
\* overall-performance sentence: the sentence naming player1 as leader iff
\* total1 > 1.2 x total2, the one naming player2 iff total2 > 1.2 x total1,
\* the "comparable performance" sentence otherwise (total1 = 1.2 x total2
\* and equal totals included); the two leader conditions never hold together.
C6_OneOverallSentence ==
    Called =>
        /\ Len(giInsights) >= 1
        /\ Positions({"overall", "comparable"}) = {1}
        /\ (giInsights[1] = Sentence("overall", CallPlayer1.name,
                                     Total(CallPlayer1), Total(CallPlayer2)))
           <=> Leads(CallPlayer1, CallPlayer2)
        /\ (giInsights[1] = Sentence("overall", CallPlayer2.name,
                                     Total(CallPlayer2), Total(CallPlayer1)))
           <=> Leads(CallPlayer2, CallPlayer1)
        /\ (giInsights[1] = Sentence("comparable", "", 0, 0))
           <=> (~Leads(CallPlayer1, CallPlayer2) /\ ~Leads(CallPlayer2, CallPlayer1))
        /\ ~(Leads(CallPlayer1, CallPlayer2) /\ Leads(CallPlayer2, CallPlayer1))

\* totals 6 and 5, exactly on the threshold: the comparable sentence
C6_Witness ==
    /\ giPc = "done"
    /\ Total(giPlayer1) = 6 /\ Total(giPlayer2) = 5
    /\ giInsights[1].kind = "comparable"

RateNum(p) == IF p.matches > 0 THEN p.wins ELSE 0
RateDen(p) == IF p.matches > 0 THEN p.matches ELSE 1
RateAbove(p, q) == RateNum(p) * RateDen(q) > RateNum(q) * RateDen(p)

\* C8: a win-rate sentence is emitted iff the two win rates differ, and it
\* names the player with the strictly higher rate, the rate being
\* 100 x wins / matches when matches > 0 and 0 when matches = 0; equal rates
\* (both players without matches included) emit none; records with
\* wins > matches are covered.
C8_WinRateSentence ==
    Called =>
        /\ Cardinality(Positions({"winrate"})) <= 1
        /\ Names("winrate", CallPlayer1) <=> RateAbove(CallPlayer1, CallPlayer2)
        /\ Names("winrate", CallPlayer2) <=> RateAbove(CallPlayer2, CallPlayer1)
        /\ (Positions({"winrate"}) = {})
           <=> (RateNum(CallPlayer1) * RateDen(CallPlayer2)
                = RateNum(CallPlayer2) * RateDen(CallPlayer1))

\* 8 and 4 wins of 10 matches: player1 named, "80.0%" compared to "40.0%"
C8_Witness ==
    /\ giPc = "done"
    /\ giPlayer1.matches = 10 /\ giPlayer1.wins = 8
    /\ giPlayer2.matches = 10 /\ giPlayer2.wins = 4
    /\ \E i \in 1..Len(giInsights) :
           giInsights[i] = Sentence("winrate", giPlayer1.name, 800, 400)

\* a consistency ratio total / matches as a fraction, 0 when matches = 0
RatioNum(p) == IF p.matches > 0 THEN Total(p) ELSE 0
RatioDen(p) == IF p.matches > 0 THEN p.matches ELSE 1
\* ratio(p) > 1.15 x ratio(q)
MoreConsistent(p, q) == 20 * RatioNum(p) * RatioDen(q) > 23 * RatioNum(q) * RatioDen(p)

\* C9: at most one consistency sentence is emitted: it names player1 iff
\* ratio1 > 1.15 x ratio2, names player2 iff ratio2 > 1.15 x ratio1, and
\* nothing is emitted otherwise, the ratio being total / matches when
\* matches > 0 and 0 when matches = 0 (a player without matches is never
\* named, two such players yield no sentence).
C9_ConsistencySentence ==
    Called =>
        /\ Cardinality(Positions({"consistency"})) <= 1
        /\ Names("consistency", CallPlayer1) <=> MoreConsistent(CallPlayer1, CallPlayer2)
        /\ Names("consistency", CallPlayer2) <=> MoreConsistent(CallPlayer2, CallPlayer1)
        /\ CallPlayer1.matches = 0 => ~Names("consistency", CallPlayer1)
        /\ CallPlayer2.matches = 0 => ~Names("consistency", CallPlayer2)

\* the least-squares slope of [score, assists, rebounds] against [0, 1, 2] as
\* a fraction: (3 (assists + 2 rebounds) - 3 total) / (3 x 5 - 3 x 3)
SlopeNum(p) == 3 * (p.assists + 2 * p.rebounds) - 3 * Total(p)
SlopeDen == 3 * 5 - 3 * 3
Improving(p) == 2 * SlopeNum(p) > SlopeDen
Declining(p) == 2 * SlopeNum(p) < -SlopeDen

\* C10: for each player on its own, the "improving" sentence is emitted iff
\* the slope of the player is > 0.5, the "declining" sentence iff it is
\* < -0.5, none for -0.5 <= slope <= 0.5 (the two boundaries included), and
\* never both for one player.
C10_TrendSentences ==
    Called =>
        \A p \in {CallPlayer1, CallPlayer2} :
            /\ Names("improving", p) <=> Improving(p)
            /\ Names("declining", p) <=> Declining(p)
            /\ ~(Names("improving", p) /\ Names("declining", p))
            /\ Cardinality({i \in Positions({"improving", "declining"}) :
                               giInsights[i].name = p.name}) <= 1

\* player1 has slope exactly 0.5 and no trend sentence, player2 has slope 1
\* and is named improving
C10_Witness ==
    /\ giPc = "done"
    /\ 2 * SlopeNum(giPlayer1) = SlopeDen
    /\ ~Names("improving", giPlayer1) /\ ~Names("declining", giPlayer1)
    /\ SlopeNum(giPlayer2) = SlopeDen
    /\ Names("improving", giPlayer2)

\* the sentences of one step that name the record p, as a set
Said(kinds, p) == {giInsights[i] : i \in {j \in Positions(kinds) : giInsights[j].name = p.name}}

\* C11: for each player on its own, the "scorer" sentence (with the score)
\* is emitted iff score > assists and score > rebounds, the "playmaker"
\* sentence (with the assists) iff assists > score and assists > rebounds,
\* and no specialization sentence otherwise: rebounds the sole maximum, or
\* any tie for the maximum.
C11_SpecializationSentence ==
    Called =>
        \A p \in {CallPlayer1, CallPlayer2} :
            LET spec == Said({"scorer", "playmaker"}, p)
                max == IF p.score >= p.assists /\ p.score >= p.rebounds THEN p.score
                       ELSE IF p.assists >= p.rebounds THEN p.assists ELSE p.rebounds
                atMax == {f \in {"score", "assists", "rebounds"} : p[f] = max}
            IN  /\ (Sentence("scorer", p.name, p.score, 0) \in spec)
                   <=> (p.score > p.assists /\ p.score > p.rebounds)
                /\ (Sentence("playmaker", p.name, p.assists, 0) \in spec)
                   <=> (p.assists > p.score /\ p.assists > p.rebounds)
                /\ Cardinality({i \in Positions({"scorer", "playmaker"}) :
                                   giInsights[i].name = p.name}) <= 1
                /\ (atMax = {"rebounds"} \/ Cardinality(atMax) >= 2) <=> (spec = {})
                /\ atMax = {"score"} <=> Names("scorer", p)
                /\ atMax = {"assists"} <=> Names("playmaker", p)

\* player1 has score = assists above rebounds (a tie for the maximum) and
\* no specialization sentence, player2 has assists as the sole maximum and
\* is named playmaker
C11_Witness ==
    /\ giPc = "done"
    /\ giPlayer1.score = giPlayer1.assists /\ giPlayer1.score > giPlayer1.rebounds
    /\ Said({"scorer", "playmaker"}, giPlayer1) = {}
    /\ giPlayer2.assists > giPlayer2.score /\ giPlayer2.assists > giPlayer2.rebounds
    /\ Sentence("playmaker", giPlayer2.name, giPlayer2.assists, 0) \in Said({"playmaker"}, giPlayer2)

\* the step a sentence belongs to
Step(kind) ==
    CASE kind \in {"overall", "comparable"} -> 1
      [] kind = "consistency" -> 2
      [] kind = "winrate" -> 3
      [] kind \in {"improving", "declining"} -> 4
      [] kind \in {"scorer", "playmaker"} -> 5

\* C12: in every returned list the sentences appear in step order (overall,
\* consistency, win rate, trend, specialization), and within the trend step
\* and within the specialization step the sentence of the first argument,
\* if any, precedes that of the second.
C12_StepOrder ==
    Called =>
        \A i, j \in 1..Len(giInsights) :
            i < j =>
                /\ Step(giInsights[i].kind) <= Step(giInsights[j].kind)
                /\ (Step(giInsights[i].kind) = Step(giInsights[j].kind))
                   => (giInsights[i].name = CallPlayer1.name
                       /\ giInsights[j].name = CallPlayer2.name)

\* a list with a sentence of every step, two in the trend step and two in
\* the specialization step, player1 before player2 in both
C12_Witness ==
    /\ giPc = "done"
    /\ Len(giInsights) = 7
    /\ [i \in 1..7 |-> Step(giInsights[i].kind)] = <<1, 2, 3, 4, 4, 5, 5>>
    /\ giInsights[4].name = giPlayer1.name /\ giInsights[5].name = giPlayer2.name
    /\ giInsights[6].name = giPlayer1.name /\ giInsights[7].name = giPlayer2.name

\* the number of sentences of the last call that belong to step n
InStep(n) == Cardinality({i \in 1..Len(giInsights) : Step(giInsights[i].kind) = n})

\* the shortest and the longest list: two records without any stats, and the
\* first worked example of the specification (totals 120 and 90)
NoStats == PlayerStats(1, "P1", "Basketball", Stats(0, 0, 0, 0, 0))
ShortestList == generateInsights(NoStats, [NoStats EXCEPT !.id = 2, !.name = "P2"])
LongestList ==
    generateInsights(PlayerStats(1, "P1", "Basketball", Stats(10, 100, 10, 10, 8)),
                     PlayerStats(2, "P2", "Basketball", Stats(10, 70, 10, 10, 4)))

\* C19: every returned list has at least 1 and at most 7 sentences: exactly
\* one of the overall step, at most one each of the consistency and win-rate
\* steps, at most two each of the trend and specialization steps; a list of
\* 1 and a list of 7 sentences are both returned for some records.
C19_OneToSevenSentences ==
    /\ Len(ShortestList) = 1
    /\ Len(LongestList) = 7
    /\ Called =>
        /\ Len(giInsights) \in 1..7
        /\ InStep(1) = 1
        /\ InStep(2) <= 1 /\ InStep(3) <= 1
        /\ InStep(4) <= 2 /\ InStep(5) <= 2
        /\ Len(giInsights) = InStep(1) + InStep(2) + InStep(3) + InStep(4) + InStep(5)

\* the call on two records without any stats returned the one comparable
\* sentence and nothing else
C19_Witness ==
    /\ giPc = "done"
    /\ Total(giPlayer1) = 0 /\ Total(giPlayer2) = 0
    /\ giPlayer1.matches = 0 /\ giPlayer2.matches = 0
    /\ giInsights = <<Sentence("comparable", "", 0, 0)>>

(***************************************************************************)
(* Properties of linearRegression, checked under SpecRegression.           *)
(***************************************************************************)
\* C14: for every 3-value sequence [a, b, c] the value returned is the
\* least-squares slope against x = [0, 1, 2],
\* (3 (b + 2c) - 3 (a + b + c)) / 6 = (c - a) / 2: twice the value returned
\* is exactly c - a, whatever b is, and [1, 3, 5] gives 2.
C14_ClosedFormSlope ==
    (lrPc = "done" /\ Len(lrValues) = 3) =>
        LET a == lrValues[1]
            b == lrValues[2]
            c == lrValues[3]
        IN  /\ lrSlope = FDivInt(3 * (b + 2 * c) - 3 * (a + b + c), 6)
            /\ lrSlope.k = "num"
            /\ FMul(lrSlope, FromInt(2)) = FromInt(c - a)
            /\ lrValues = <<1, 3, 5>> => lrSlope = FromInt(2)

\* the fixture of the specification: [1, 3, 5] returned 2
C14_Witness ==
    /\ lrPc = "done"
    /\ lrValues = <<1, 3, 5>>
    /\ lrSlope = FromInt(2)

\* the denominator n x sum(x^2) - (sum x)^2 for x = 0 .. n - 1
RegressionDen(n) ==
    LET x == [i \in 1..n |-> i - 1]
    IN  n * SumSeq([i \in 1..n |-> x[i] * x[i]]) - SumSeq(x) * SumSeq(x)

\* C15: whenever the denominator is zero (sequences of length 0 and of
\* length 1) the value returned is 0, not an undefined or non-finite value.
C15_ZeroDenominatorGivesZero ==
    (lrPc = "done" /\ RegressionDen(Len(lrValues)) = 0) =>
        /\ Len(lrValues) \in {0, 1}
        /\ lrSlope.k = "num"
        /\ IsZero(lrSlope)

(***************************************************************************)
(* Properties of the Index page, checked under SpecIndex.                  *)
(***************************************************************************)
CompareToasts == {"Please select two players to compare", "Please select different players"}

\* C17: handleCompare navigates to the compare route only when
\* selectedPlayer1 and selectedPlayer2 are both non-empty and different, and
\* then to the route of these two; with a selection empty or both equal it
\* shows its toast, does not navigate, and in every case it leaves the two
\* selections unchanged.
C17_CompareOnlyTwoDifferentPlayers ==
    [][ /\ (route' # route)
           => /\ selectedPlayer1 # 0 /\ selectedPlayer2 # 0
              /\ selectedPlayer1 # selectedPlayer2
              /\ route' = CompareRoute(selectedPlayer1, selectedPlayer2)
              /\ selectedPlayer1' = selectedPlayer1
              /\ selectedPlayer2' = selectedPlayer2
        /\ (toast' \in CompareToasts /\ toast' # toast)
           => /\ selectedPlayer1 = 0 \/ selectedPlayer2 = 0
                 \/ selectedPlayer1 = selectedPlayer2
              /\ route' = route
              /\ selectedPlayer1' = selectedPlayer1
              /\ selectedPlayer2' = selectedPlayer2
        /\ (selectedPlayer1 = 0 \/ selectedPlayer2 = 0
            \/ selectedPlayer1 = selectedPlayer2)
           => route' = route
      ]_vars

\* handleCompare refused the same player chosen twice, and after another
\* choice it navigated to the compare route of two different players
C17_Witness ==
    /\ toast = "Please select different players"
    /\ selectedPlayer1 # 0 /\ selectedPlayer2 # 0
    /\ selectedPlayer1 # selectedPlayer2
    /\ route = CompareRoute(selectedPlayer1, selectedPlayer2)

\* every fetchPlayers call started so far has completed without error
Settled ==
    /\ route = Home
    /\ \A f \in 1..Len(fetches) : fetches[f].status = "done" /\ fetches[f].ok

\* C20: once every fetchPlayers call (of the mount effect and of
\* handleSportChange) has completed without error, players holds the result
\* of the call started last and the displayed filteredPlayers are the
\* stored players of the selected sport, in whatever order the answers
\* arrived.
C20_LastFetchWins ==
    Settled =>
        /\ players = fetches[Len(fetches)].data
        /\ filteredPlayers = RowsOf(selectedSport)

====
